---------------------------- MODULE Spec2Model ----------------------------
(***************************************************************************)
(* Model of data/fetch_data.py, the scoring pipeline of the macro          *)
(* dashboard: percentile rank -> factor score -> module score -> overall   *)
(* score -> lift/drag attribution.                                         *)
(*                                                                         *)
(* Numbers.  The program computes in binary floating point; the model      *)
(* computes exactly.  A real number is a pair <<num, den>> with den > 0.   *)
(* A score (one decimal) is an integer number of tenths: 66.0 is 660.      *)
(* A lift/drag contribution (two decimals) is an integer number of         *)
(* hundredths.  A weight is an integer number of 1/420 (420 is divisible   *)
(* by 2, 3, 7, 10 and 20, so that 0.30, 0.15, 0.8, 1/7, 1/2 and 1/3 are    *)
(* all whole).  Python's round() is round-half-to-even.                    *)
(*                                                                         *)
(* Time.  A date is a day number; TODAY is the run's date.  The 5-year     *)
(* lookback, the 90-day buffer of the score history and the 200-day raw    *)
(* lead are scaled down to LookbackDays, BufferDays and RawLeadDays.       *)
(*                                                                         *)
(* A series (pandas Series with a DatetimeIndex) is a sequence of          *)
(* <<date, value>> with strictly increasing dates; the value 0 stands for  *)
(* NaN, every other raw value is a positive integer.                       *)
(*                                                                         *)
(* Not modelled: the formatted strings, trendData, percentileData, color   *)
(* and percentile5Y fields of the output (presentation, read by no score). *)
(***************************************************************************)
EXTENDS Integers, Sequences, FiniteSets, TLC

\* ------------------------------------------------------------------ bounds

\* Longest window and largest value (in tens) of the unit harness's windows
\* (the windows of the documented examples are added to them).
MaxLen == 5
MaxVal == 3
\* pct_rank's lookback (5 * 365 days in the program), scaled down.
LookbackDays == 9
\* The extra days of the score-history window (90 in the program), scaled down.
BufferDays == 1
\* The extra days of START_RAW over the score-history window (110), scaled down.
RawLeadDays == 1

TODAY == 40

\* ------------------------------------------------------------- arithmetic

\* round(n / d) for d > 0, half to even: Python's round().
RoundHalfEven(n, d) ==
    LET q == n \div d
        r == n % d
    IN  IF 2 * r < d THEN q
        ELSE IF 2 * r > d THEN q + 1
        ELSE IF q % 2 = 0 THEN q ELSE q + 1

\* round(x, 1) of the real x = r[1] / r[2], as a number of tenths.
Round1(r) == RoundHalfEven(10 * r[1], r[2])

\* round(x, 1) of a real already counted in tenths.
RoundTenths(r) == RoundHalfEven(r[1], r[2])

\* A sequence given by an index expression, built as a tuple at once.
List(f) == SelectSeq(f, LAMBDA x : TRUE)

RECURSIVE SumSeq(_)
SumSeq(s) == IF s = <<>> THEN 0 ELSE Head(s) + SumSeq(Tail(s))

\* ---------------------------------------------------------------- series

IsNaN(v) == v = 0

dropna(s) == SelectSeq(s, LAMBDA o : ~IsNaN(o[2]))

\* series[series.index >= cutoff]
Since(s, cutoff) == SelectSeq(s, LAMBDA o : o[1] >= cutoff)

ValuesOf(s) == List([i \in 1..Len(s) |-> s[i][2]])

\* s.iloc[-k]
ILocBack(s, k) == s[Len(s) - k + 1]

\* -------------------------------------------------------- percentile engine

\* Mutant: kind="mean", the average of the strict and the weak percentile.
percentileofscore_mean(a, score) ==
    LET n     == Len(a)
        left  == Cardinality({i \in 1..n : a[i] < score})
        right == Cardinality({i \in 1..n : a[i] <= score})
    IN  <<(left + right) * 50, n>>

\* Mutant: kind="weak", the share of values <= score.
percentileofscore_weak(a, score) ==
    LET n     == Len(a)
        right == Cardinality({i \in 1..n : a[i] <= score})
    IN  <<right * 100, n>>

\* scipy.stats.percentileofscore(a, score, kind="rank"):
\* (left + right + (1 if left < right else 0)) * 50 / n.
percentileofscore(a, score) ==
    LET n     == Len(a)
        left  == Cardinality({i \in 1..n : a[i] < score})
        right == Cardinality({i \in 1..n : a[i] <= score})
        plus1 == IF left < right THEN 1 ELSE 0
    IN  <<(left + right + plus1) * 50, n>>

pct_rank(series) ==
    LET cutoff == TODAY - LookbackDays
        hist   == dropna(Since(series, cutoff))
    IN  IF Len(hist) < 2 THEN <<50, 1>>
        ELSE percentileofscore(ValuesOf(hist), ILocBack(hist, 1)[2])

\* The factor ids of the model, with the inverted ones of the program's set.
INVERT_FACTORS == {"tga-deviation", "vix"}

\* Mutant: the clamp to [0, 100] left out.
score_from_pct_unclamped(raw_pct, factor_id) ==
    Round1(IF factor_id \in INVERT_FACTORS
           THEN <<100 * raw_pct[2] - raw_pct[1], raw_pct[2]>>
           ELSE raw_pct)

\* Mutant: every factor scored uninverted.
score_from_pct_uninverted(raw_pct, factor_id) ==
    LET lo == IF raw_pct[1] < 0 THEN <<0, 1>> ELSE raw_pct
        hi == IF lo[1] > 100 * lo[2] THEN <<100, 1>> ELSE lo
    IN  Round1(hi)

\* raw_pct is a real <<num, den>>; the result is a score in tenths.
score_from_pct(raw_pct, factor_id) ==
    LET score == IF factor_id \in INVERT_FACTORS
                 THEN <<100 * raw_pct[2] - raw_pct[1], raw_pct[2]>>
                 ELSE raw_pct
        lo    == IF score[1] < 0 THEN <<0, 1>> ELSE score
        hi    == IF lo[1] > 100 * lo[2] THEN <<100, 1>> ELSE lo
    IN  Round1(hi)

get_status(score) ==
    IF score >= 660 THEN "supportive"
    ELSE IF score >= 330 THEN "neutral"
    ELSE "restrictive"

get_velocity(series) ==
    LET s == series
    IN  IF Len(s) < 7 + 1 THEN "flat"
        ELSE LET diff == ILocBack(s, 1)[2] - ILocBack(s, 8)[2]
             IN  IF diff > 20 THEN "rising"
                 ELSE IF diff < -20 THEN "falling"
                 ELSE "flat"

\* Mutant: every day ranked against the days up to it (an expanding window).
ScoreHistExpanding(hist, factor_id) ==
    List([i \in 1..Len(hist) |->
            <<hist[i][1],
              score_from_pct(percentileofscore(ValuesOf(SubSeq(hist, 1, i)), hist[i][2]),
                             factor_id)>>])

\* hist.apply(lambda x: score_from_pct(percentileofscore(hist.values, x), id))
ScoreHist(hist, factor_id) ==
    LET values == ValuesOf(hist)
    IN  List([i \in 1..Len(hist) |->
                <<hist[i][1],
                  score_from_pct(percentileofscore(values, hist[i][2]), factor_id)>>])

make_score_series(series, factor_id) ==
    LET cutoff == TODAY - (LookbackDays + BufferDays)
        hist   == dropna(Since(dropna(series), cutoff))
    IN  IF Len(hist) < 5 THEN <<>> ELSE ScoreHist(hist, factor_id)

\* ----------------------------------------------------------- factor scorer

\* A weight n/d as a number of 1/420.
Frac(n, d) == (420 * n) \div d

\* make_factor returns None (here <<>>) or the factor dict (here <<dict>>).
make_factor(factor_id, series, is_extra) ==
    LET s == dropna(series)
    IN  IF Len(s) < 10 THEN <<>>
        ELSE LET raw_pct      == pct_rank(s)
                 score_val    == score_from_pct(raw_pct, factor_id)
                 cutoff       == TODAY - (LookbackDays + BufferDays)
                 hist         == dropna(Since(s, cutoff))
                 score_series == ScoreHist(hist, factor_id)
             IN  << [id                     |-> factor_id,
                     historicalPercentile5Y |-> Round1(raw_pct),
                     status                 |-> get_status(score_val),
                     velocity               |-> get_velocity(score_series),
                     isExtra                |-> is_extra] >>

\* ------------------------------------------------------- module aggregator

\* Reals <<num, den>>, den > 0, kept in lowest terms.
RECURSIVE GCD(_, _)
GCD(a, b) == IF b = 0 THEN a ELSE GCD(b, a % b)

Abs(n) == IF n < 0 THEN 0 - n ELSE n

Reduce(r) ==
    LET g == GCD(Abs(r[1]), r[2])
    IN  <<r[1] \div g, r[2] \div g>>

RAdd(a, b) == Reduce(<<a[1] * b[2] + b[1] * a[2], a[2] * b[2]>>)
RMul(a, b) == Reduce(<<a[1] * b[1], a[2] * b[2]>>)
RGt(a, b) == a[1] * b[2] > b[1] * a[2]
RLt(a, b) == a[1] * b[2] < b[1] * a[2]

RECURSIVE RSum(_)
RSum(s) == IF s = <<>> THEN <<0, 1>> ELSE RAdd(Head(s), RSum(Tail(s)))

RECURSIVE SortSet(_)
SortSet(S) ==
    IF S = {} THEN <<>>
    ELSE LET m == CHOOSE x \in S : \A y \in S : x <= y
         IN  <<m>> \o SortSet(S \ {m})

DatesOf(s) == {s[i][1] : i \in 1..Len(s)}
HasDate(s, d) == \E i \in 1..Len(s) : s[i][1] = d
ValAt(s, d) == s[CHOOSE i \in 1..Len(s) : s[i][1] = d][2]

\* fw.get(fid, default)
WeightGet(fw, fid, default) == IF fid \in DOMAIN fw THEN fw[fid] ELSE default

\* FACTOR_WEIGHTS.get(slug, {})
TableGet(FW, slug) == IF slug \in DOMAIN FW THEN FW[slug] ELSE << >>

\* (pd.concat(ss_list, axis=1) * weights / weights.sum()).sum(axis=1), with
\* weights = [fw.get(fid, 1 / len(valid_ids)) for fid in valid_ids]: on every
\* date of the union, the weighted sum over the series that have the date (sum
\* skips NaN).  The values are reals in tenths.  With weights.sum() = 0 every
\* normalized weight is NaN, every product is NaN and every row sums to 0.0.
WeightedTs(valid_ids, ss_list, fw) ==
    LET weights == List([i \in 1..Len(valid_ids) |->
                       WeightGet(fw, valid_ids[i], Frac(1, Len(valid_ids)))])
        wsum    == SumSeq(weights)
        dates   == SortSet(UNION {DatesOf(ss_list[i]) : i \in 1..Len(ss_list)})
        Row(d)  == SumSeq(List([i \in 1..Len(ss_list) |->
                              IF HasDate(ss_list[i], d)
                              THEN ValAt(ss_list[i], d) * weights[i]
                              ELSE 0]))
    IN  List([k \in 1..Len(dates) |->
            <<dates[k], IF wsum = 0 THEN <<0, 1>> ELSE Reduce(<<Row(dates[k]), wsum>>)>>])

\* Mutant: the threshold of a module's trend used for every series.
TrendDirOnePoint(ts, threshold) ==
    LET n      == Len(ts)
        recent == IF n >= 3 THEN SubSeq(ts, n - 2, n) ELSE ts
        last   == recent[Len(recent)][2]
        first  == recent[1][2]
    IN  IF Len(recent) >= 2 /\ RGt(last, RAdd(first, <<10, 1>>))
        THEN "improving"
        ELSE IF Len(recent) >= 2 /\ RLt(last, RAdd(first, <<0 - 10, 1>>))
        THEN "declining"
        ELSE "stable"

\* The trend rule of a score series: tail(3), last against first, threshold in
\* tenths of a point.
TrendDir(ts, threshold) ==
    LET n      == Len(ts)
        recent == IF n >= 3 THEN SubSeq(ts, n - 2, n) ELSE ts
        last   == recent[Len(recent)][2]
        first  == recent[1][2]
    IN  IF Len(recent) >= 2 /\ RGt(last, RAdd(first, <<threshold, 1>>))
        THEN "improving"
        ELSE IF Len(recent) >= 2 /\ RLt(last, RAdd(first, <<0 - threshold, 1>>))
        THEN "declining"
        ELSE "stable"

\* round((module_score - prev_score) / max(prev_score, 0.01) * 100, 2), in
\* hundredths of a percent; the scores are tenths, so 0.01 is 1/10 of a tenth.
ChangePct(module_score, prev_score) ==
    IF prev_score >= 1
    THEN RoundHalfEven((module_score - prev_score) * 10000, prev_score)
    ELSE (module_score - prev_score) * 100000

\* Mutant: the informational factors counted as scored.
ScoredWithExtras(factors) == factors

\* [f for f in factors if not f["isExtra"]]
ScoredOf(factors) == SelectSeq(factors, LAMBDA f : ~f.isExtra)

\* Mutant: the weighted sum left undivided (the weights taken to sum to 1).
ModuleScoreRawSum(scored_scores, scored_weights) ==
    RoundHalfEven(SumSeq(List([i \in 1..Len(scored_scores) |->
                      scored_scores[i] * scored_weights[i]])), 420)

\* round(sum(s * w) / w_total, 1), for w_total > 0.
ModuleScore(scored_scores, scored_weights) ==
    RoundHalfEven(SumSeq(List([i \in 1..Len(scored_scores) |->
                      scored_scores[i] * scored_weights[i]])),
                  SumSeq(scored_weights))

RECURSIVE Flatten(_)
Flatten(ss) == IF ss = <<>> THEN <<>> ELSE Head(ss) \o Flatten(Tail(ss))

\* factor_specs is a sequence of <<factor_id, is_extra>>; series maps a factor
\* id to its series.  The result is [kind |-> "none"] (return None, {}),
\* [kind |-> "raised"] (ZeroDivisionError at the module score) or the module.
build_module_obj(slug, factor_specs, FW, series) ==
    LET factors == Flatten(List([i \in 1..Len(factor_specs) |->
                       make_factor(factor_specs[i][1], series[factor_specs[i][1]],
                                   factor_specs[i][2])]))
        ids     == {factors[i].id : i \in 1..Len(factors)}
        fss_list == List([i \in 1..Len(factors) |->
                        make_score_series(series[factors[i].id], factors[i].id)])
        factor_score_series ==
            [fid \in ids |-> fss_list[CHOOSE i \in 1..Len(factors) : factors[i].id = fid]]
        scored  == ScoredOf(factors)
        fw      == TableGet(FW, slug)
        scored_scores  == List([i \in 1..Len(scored) |->
                              score_from_pct(<<scored[i].historicalPercentile5Y, 10>>,
                                             scored[i].id)])
        scored_weights == List([i \in 1..Len(scored) |->
                              WeightGet(fw, scored[i].id, Frac(1, Len(scored)))])
        w_total      == SumSeq(scored_weights)
        module_score == ModuleScore(scored_scores, scored_weights)
        scored_ids   == List([i \in 1..Len(scored) |-> scored[i].id])
        valid_ids    == SelectSeq(scored_ids,
                            LAMBDA fid : fid \in ids /\ Len(factor_score_series[fid]) > 0)
        ss_list      == List([i \in 1..Len(valid_ids) |->
                              factor_score_series[valid_ids[i]]])
        mod_score_ts == IF ss_list # <<>> THEN WeightedTs(valid_ids, ss_list, fw)
                        ELSE <<>>
        prev_score   == IF Len(mod_score_ts) > 7
                        THEN RoundTenths(ILocBack(mod_score_ts, 8)[2])
                        ELSE module_score
    IN  IF scored = <<>> THEN [kind |-> "none"]
        ELSE IF w_total = 0 THEN [kind |-> "raised"]
        ELSE [kind   |-> "module",
              module |-> [slug              |-> slug,
                          score             |-> module_score,
                          prevScore         |-> prev_score,
                          sevenDayChangePct |-> ChangePct(module_score, prev_score),
                          trendDirection    |-> TrendDir(mod_score_ts, 10),
                          factors           |-> factors],
              fss    |-> factor_score_series,
              ts     |-> mod_score_ts]

\* -------------------------------------------------------- index aggregator

\* MODULE_WEIGHTS is a sequence of <<slug, weight>> (a dict in insertion order);
\* modules is a sequence of module dicts (the dict modules, in insertion order).
HasModule(modules, slug) == \E i \in 1..Len(modules) : modules[i].slug = slug
ModuleOf(modules, slug) ==
    modules[CHOOSE i \in 1..Len(modules) : modules[i].slug = slug]

\* MODULE_WEIGHTS.items() restricted to "if slug in modules".
PresentItems(modules, MW) == SelectSeq(MW, LAMBDA it : HasModule(modules, it[1]))

\* round(sum(modules[slug]["score"] * w ...), 1), in tenths.
OverallScore(modules, MW) ==
    LET items == PresentItems(modules, MW)
    IN  RoundHalfEven(SumSeq(List([i \in 1..Len(items) |->
                          ModuleOf(modules, items[i][1]).score * items[i][2]])), 420)

\* round(sum(modules[slug]["prevScore"] * w ...), 1), in tenths.
PrevOverall(modules, MW) ==
    LET items == PresentItems(modules, MW)
    IN  RoundHalfEven(SumSeq(List([i \in 1..Len(items) |->
                          ModuleOf(modules, items[i][1]).prevScore * items[i][2]])), 420)

ValidIds(module, afss) ==
    LET scored == ScoredOf(module.factors)
    IN  SelectSeq(List([i \in 1..Len(scored) |-> scored[i].id]),
                  LAMBDA fid : fid \in DOMAIN afss /\ Len(afss[fid]) > 0)

\* overall_score_ts_parts: per present module with a score series,
\* (df * f_weights).sum(axis=1) * w.
OverallTsParts(modules, MW, FW, afss) ==
    LET items   == PresentItems(modules, MW)
        Part(it) ==
            LET valid_ids == ValidIds(ModuleOf(modules, it[1]), afss)
                ss_list   == List([i \in 1..Len(valid_ids) |-> afss[valid_ids[i]]])
                mod_ts    == WeightedTs(valid_ids, ss_list, TableGet(FW, it[1]))
            IN  IF ss_list = <<>> THEN <<>>
                ELSE << List([k \in 1..Len(mod_ts) |->
                           <<mod_ts[k][1],
                             RMul(mod_ts[k][2], Reduce(<<it[2], 420>>))>>]) >>
    IN  Flatten(List([i \in 1..Len(items) |-> Part(items[i])]))

\* pd.concat(parts, axis=1).sum(axis=1).dropna()
OverallTs(modules, MW, FW, afss) ==
    LET parts == OverallTsParts(modules, MW, FW, afss)
        dates == SortSet(UNION {DatesOf(parts[i]) : i \in 1..Len(parts)})
        Row(d) == RSum(List([i \in 1..Len(parts) |->
                           IF HasDate(parts[i], d) THEN ValAt(parts[i], d)
                           ELSE <<0, 1>>]))
    IN  List([k \in 1..Len(dates) |-> <<dates[k], Row(dates[k])>>])

\* ------------------------------------------------------ attribution engine

\* The entries of lift_drag before the sort: [name, pts], pts in hundredths.
LiftDragEntries(modules, MW, FW, afss) ==
    LET items == PresentItems(modules, MW)
        Entry(f, scored, fw, w) ==
            LET ss == IF f.id \in DOMAIN afss THEN afss[f.id] ELSE <<>>
            IN  IF f.id \notin DOMAIN afss \/ Len(ss) < 9 THEN <<>>
                ELSE LET factor_w  == WeightGet(fw, f.id, Frac(1, Len(scored))) * w
                         score_now == ILocBack(ss, 1)[2]
                         score_7d  == IF Len(ss) > 8 THEN ILocBack(ss, 8)[2]
                                      ELSE score_now
                     IN  << [name |-> f.id,
                             pts  |-> RoundHalfEven((score_now - score_7d) * factor_w * 10,
                                                    420 * 420)] >>
        OfModule(it) ==
            LET scored == ScoredOf(ModuleOf(modules, it[1]).factors)
            IN  Flatten(List([j \in 1..Len(scored) |->
                            Entry(scored[j], scored, TableGet(FW, it[1]), it[2])]))
    IN  Flatten(List([i \in 1..Len(items) |-> OfModule(items[i])]))

\* list.sort(key=lambda x: x["pts"], reverse=True): stable, descending.
RECURSIVE SortByPtsDesc(_)
SortByPtsDesc(s) ==
    IF s = <<>> THEN <<>>
    ELSE LET rest == SortByPtsDesc(SubSeq(s, 1, Len(s) - 1))
             x    == s[Len(s)]
             keep == SelectSeq(rest, LAMBDA e : e.pts >= x.pts)
             tail == SelectSeq(rest, LAMBDA e : e.pts < x.pts)
         IN  keep \o <<x>> \o tail

\* ------------------------------------------------------------------ state

VARIABLES
    \* inputs of a run: the derived series per factor id, and the two tables
    series, FACTOR_WEIGHTS, MODULE_WEIGHTS,
    \* the script's position: "build", "overall", "trend", "attribution",
    \* "done", or "raised" (an uncaught exception ended the run);
    \* todo is the index in all_specs of the next module to build
    pc, todo,
    \* the script's globals
    modules, all_factor_score_series, mod_score_ts,
    overall_score, prev_overall, overall_ts, overall_trend_dir,
    lift_drag, score_lift, score_drag,
    \* the unit harness: one call of each scoring function on its own
    \* (u_given: the percentile was handed in, not computed by pct_rank)
    u_pc, u_series, u_given, u_fid, u_pct, u_score, u_status, u_ss

inputs == <<series, FACTOR_WEIGHTS, MODULE_WEIGHTS>>
globals == <<modules, all_factor_score_series, mod_score_ts,
             overall_score, prev_overall, overall_ts, overall_trend_dir,
             lift_drag, score_lift, score_drag>>
unit == <<u_pc, u_series, u_given, u_fid, u_pct, u_score, u_status, u_ss>>
vars == <<inputs, pc, todo, globals, unit>>

\* ----------------------------------------------------------------- inputs

\* all_specs: slug -> factor specs <<factor_id, is_extra>>, two of the
\* program's seven modules with three and one of their factors.
all_specs ==
    << <<"liquidity", << <<"fed-net-liquidity", FALSE>>,
                         <<"tga-deviation", FALSE>>,
                         <<"on-rrp", TRUE>> >> >>,
       <<"risk",      << <<"vix", FALSE>> >> >> >>

FactorIds == {"fed-net-liquidity", "tga-deviation", "on-rrp", "vix"}

\* The first date of the raw data (START_RAW).
FirstRawDay == TODAY - (LookbackDays + BufferDays + RawLeadDays)

\* A series on the days lo..TODAY: NaN on the days of nan, before the last day
\* the value a, on the last day the value b.
StepSeries(lo, nan, a, b) ==
    List([i \in 1..(TODAY - lo + 1) |->
            LET d == lo + i - 1
            IN  <<d, IF d \in nan THEN 0 ELSE IF d < TODAY THEN a ELSE b>>])

Steps == {<<1, 2>>, <<2, 1>>}
Patterns == {<<1, 1>>} \cup Steps

\* The series a factor may come with: the whole raw range (flat, stepping up
\* today or stepping down today), the lookback window only and the raw range
\* with yesterday's value NaN (each stepping up or down today), and nine
\* observations (too few for make_factor).
TooShort == StepSeries(TODAY - 8, {}, 1, 1)

SeriesPool ==
    {StepSeries(FirstRawDay, {}, p[1], p[2]) : p \in Patterns}
    \cup {StepSeries(TODAY - LookbackDays, {}, p[1], p[2]) : p \in Steps}
    \cup {StepSeries(FirstRawDay, {TODAY - 1}, p[1], p[2]) : p \in Steps}
    \cup {TooShort}

\* The informational factor comes without enough data or with a long series.
ExtraPool == {TooShort, StepSeries(FirstRawDay, {}, 1, 2)}

\* The series a run may start from.
SeriesInputs ==
    {s \in [FactorIds -> SeriesPool] : s["on-rrp"] \in ExtraPool}

\* Factor weight tables: the program's values for the modelled factors, a table
\* of zeros, and a table that leaves one factor out.
LiquidityTables ==
    { ("fed-net-liquidity" :> Frac(30, 100)) @@ ("tga-deviation" :> Frac(15, 100)),
      ("fed-net-liquidity" :> 0) @@ ("tga-deviation" :> 0),
      ("fed-net-liquidity" :> Frac(80, 100)) }

FactorWeightTables ==
    { ("liquidity" :> t) @@ ("risk" :> ("vix" :> Frac(30, 100))) : t \in LiquidityTables }

\* Module weight tables: the program's equal weights, and 0.6 / 0.4.
ModuleWeightTables ==
    { << <<"liquidity", Frac(1, 2)>>, <<"risk", Frac(1, 2)>> >>,
      << <<"liquidity", Frac(60, 100)>>, <<"risk", Frac(40, 100)>> >> }

\* The windows of the unit harness: up to MaxLen daily values ending today.
UnitValues == {10 * v : v \in 1..MaxVal}
DailySeries(vals) == List([i \in 1..Len(vals) |-> <<TODAY - Len(vals) + i, vals[i]>>])
UnitSeries ==
    UNION { { DailySeries(List(w)) : w \in [1..n -> UnitValues] } : n \in 0..MaxLen }
    \cup { DailySeries(<<10, 20, 40, 50, 30>>), DailySeries(<<10, 20, 30, 20>>),
           DailySeries(<<20, 10, 30, 20>>) }

\* Raw percentiles handed to score_from_pct directly: -1.00 to 101.00 by 0.05.
RawPctGrid == { <<n, 20>> : n \in (0 - 20)..2020 }

UnitFactors == {"vix", "fed-net-liquidity"}

\* ------------------------------------------------------------------- init

GlobalsInit ==
    /\ modules = <<>>
    /\ all_factor_score_series = << >>
    /\ mod_score_ts = << >>
    /\ overall_score = 0
    /\ prev_overall = 0
    /\ overall_ts = <<>>
    /\ overall_trend_dir = ""
    /\ lift_drag = <<>>
    /\ score_lift = <<>>
    /\ score_drag = <<>>

UnitIdle ==
    /\ u_pc = "idle"
    /\ u_series = <<>>
    /\ u_given = FALSE
    /\ u_fid = ""
    /\ u_pct = <<50, 1>>
    /\ u_score = 0
    /\ u_status = ""
    /\ u_ss = <<>>

Init ==
    /\ series \in SeriesInputs
    /\ FACTOR_WEIGHTS \in FactorWeightTables
    /\ MODULE_WEIGHTS \in ModuleWeightTables
    /\ pc = "build"
    /\ todo = 1
    /\ GlobalsInit
    /\ UnitIdle

\* ---------------------------------------------------------------- actions

\* One turn of "for slug, (mname, specs) in all_specs.items()".
BuildModule ==
    /\ pc = "build"
    /\ todo <= Len(all_specs)
    /\ \E r \in {build_module_obj(all_specs[todo][1], all_specs[todo][2],
                                  FACTOR_WEIGHTS, series)} :
           /\ pc' = IF r.kind = "raised" THEN "raised"
                    ELSE IF todo = Len(all_specs) THEN "overall" ELSE "build"
           /\ todo' = todo + 1
           /\ IF r.kind = "module"
              THEN /\ modules' = Append(modules, r.module)
                   /\ all_factor_score_series' = r.fss @@ all_factor_score_series
                   /\ mod_score_ts' = (all_specs[todo][1] :> r.ts) @@ mod_score_ts
              ELSE UNCHANGED <<modules, all_factor_score_series, mod_score_ts>>
    /\ UNCHANGED <<inputs, overall_score, prev_overall, overall_ts,
                   overall_trend_dir, lift_drag, score_lift, score_drag, unit>>

ComputeOverall ==
    /\ pc = "overall"
    /\ overall_score' = OverallScore(modules, MODULE_WEIGHTS)
    /\ prev_overall' = PrevOverall(modules, MODULE_WEIGHTS)
    /\ pc' = "trend"
    /\ UNCHANGED <<inputs, todo, modules, all_factor_score_series, mod_score_ts,
                   overall_ts, overall_trend_dir, lift_drag, score_lift,
                   score_drag, unit>>

ComputeOverallTs ==
    /\ pc = "trend"
    /\ \E ts \in {OverallTs(modules, MODULE_WEIGHTS, FACTOR_WEIGHTS,
                            all_factor_score_series)} :
           /\ overall_ts' = ts
           /\ overall_trend_dir' = TrendDir(ts, 5)
    /\ pc' = "attribution"
    /\ UNCHANGED <<inputs, todo, modules, all_factor_score_series, mod_score_ts,
                   overall_score, prev_overall, lift_drag, score_lift,
                   score_drag, unit>>

ComputeLiftDrag ==
    /\ pc = "attribution"
    /\ \E sorted \in {SortByPtsDesc(LiftDragEntries(modules, MODULE_WEIGHTS,
                                        FACTOR_WEIGHTS, all_factor_score_series))} :
           /\ lift_drag' = sorted
           /\ score_lift' = SelectSeq(sorted, LAMBDA e : e.pts > 0)
           /\ score_drag' = SelectSeq(sorted, LAMBDA e : e.pts < 0)
    /\ pc' = "done"
    /\ UNCHANGED <<inputs, todo, modules, all_factor_score_series, mod_score_ts,
                   overall_score, prev_overall, overall_ts, overall_trend_dir,
                   unit>>

Next == BuildModule \/ ComputeOverall \/ ComputeOverallTs \/ ComputeLiftDrag

Spec == Init /\ [][Next]_vars

\* ----------------------------------------------------------- unit harness

\* One call of each scoring function on a small window, as a unit test makes.
InitUnit ==
    /\ series = [f \in FactorIds |-> <<>>]
    /\ FACTOR_WEIGHTS = << >>
    /\ MODULE_WEIGHTS = <<>>
    /\ pc = "idle"
    /\ todo = 0
    /\ GlobalsInit
    /\ u_pc = "start"
    /\ u_series \in UnitSeries
    /\ u_given = FALSE
    /\ u_fid = ""
    /\ u_pct = <<50, 1>>
    /\ u_score = 0
    /\ u_status = ""
    /\ u_ss = <<>>

CallPctRank ==
    /\ u_pc = "start"
    /\ u_pct' = pct_rank(u_series)
    /\ u_pc' = "ranked"
    /\ UNCHANGED <<inputs, pc, todo, globals, u_series, u_given, u_fid, u_score,
                   u_status, u_ss>>

\* A raw percentile handed to score_from_pct directly.
GivePct ==
    /\ u_pc = "start"
    /\ u_series = <<>>
    /\ \E p \in RawPctGrid : u_pct' = p
    /\ u_given' = TRUE
    /\ u_pc' = "ranked"
    /\ UNCHANGED <<inputs, pc, todo, globals, u_series, u_fid, u_score,
                   u_status, u_ss>>

CallScoreFromPct ==
    /\ u_pc = "ranked"
    /\ \E fid \in UnitFactors :
           /\ u_fid' = fid
           /\ u_score' = score_from_pct(u_pct, fid)
    /\ u_pc' = "scored"
    /\ UNCHANGED <<inputs, pc, todo, globals, u_series, u_given, u_pct,
                   u_status, u_ss>>

CallGetStatus ==
    /\ u_pc = "scored"
    /\ u_status' = get_status(u_score)
    /\ u_pc' = "status"
    /\ UNCHANGED <<inputs, pc, todo, globals, u_series, u_given, u_fid, u_pct,
                   u_score, u_ss>>

CallMakeScoreSeries ==
    /\ u_pc = "status"
    /\ u_ss' = make_score_series(u_series, u_fid)
    /\ u_pc' = "done"
    /\ UNCHANGED <<inputs, pc, todo, globals, u_series, u_given, u_fid, u_pct,
                   u_score, u_status>>

NextUnit ==
    CallPctRank \/ GivePct \/ CallScoreFromPct \/ CallGetStatus
        \/ CallMakeScoreSeries

SpecUnit == InitUnit /\ [][NextUnit]_vars

\* ------------------------------------------------- runs on small weights

\* A series on the days lo..TODAY that is 1 but for a 2 seven days ago and a
\* 3 today: its score rises by one rank over the last seven observations.
RampSeries(lo) ==
    List([i \in 1..(TODAY - lo + 1) |->
            LET d == lo + i - 1
            IN  <<d, IF d = TODAY THEN 3 ELSE IF d = TODAY - 7 THEN 2 ELSE 1>>])

\* The same with yesterday's value NaN: the value of seven days ago is then
\* six observations back.
GapRampSeries(lo) ==
    List([i \in 1..(TODAY - lo + 1) |->
            LET d == lo + i - 1
            IN  <<d, IF d = TODAY - 1 THEN 0 ELSE RampSeries(lo)[i][2]>>])

\* Runs whose tables hold small weights (a factor weight of 1/105, a module
\* weight of 0.05), on series that rise by one rank or step today.
\* A series on the days lo..TODAY that is 1 up to three days ago and 2 since.
LateStepSeries(lo) ==
    List([i \in 1..(TODAY - lo + 1) |->
            LET d == lo + i - 1
            IN  <<d, IF d >= TODAY - 2 THEN 2 ELSE 1>>])

FineSeriesPool ==
    {RampSeries(FirstRawDay), GapRampSeries(FirstRawDay), LateStepSeries(FirstRawDay),
     StepSeries(FirstRawDay, {}, 1, 2), StepSeries(FirstRawDay, {}, 2, 1), TooShort}

FineSeriesInputs ==
    {s \in [FactorIds -> FineSeriesPool \cup {TooShort}] : s["on-rrp"] = TooShort}

FineFactorWeightTables ==
    { ("liquidity" :> (("fed-net-liquidity" :> Frac(1, 105))
                          @@ ("tga-deviation" :> Frac(15, 100))))
         @@ ("risk" :> ("vix" :> Frac(30, 100))),
      ("liquidity" :> (("fed-net-liquidity" :> Frac(30, 100))
                          @@ ("tga-deviation" :> Frac(15, 100))))
         @@ ("risk" :> ("vix" :> Frac(30, 100))) }

FineModuleWeightTables ==
    { << <<"liquidity", Frac(5, 100)>>, <<"risk", Frac(95, 100)>> >>,
      << <<"liquidity", Frac(1, 2)>>, <<"risk", Frac(1, 2)>> >> }

InitFine ==
    /\ series \in FineSeriesInputs
    /\ FACTOR_WEIGHTS \in FineFactorWeightTables
    /\ MODULE_WEIGHTS \in FineModuleWeightTables
    /\ pc = "build"
    /\ todo = 1
    /\ GlobalsInit
    /\ UnitIdle

SpecFine == InitFine /\ [][Next]_vars

\* ------------------------------------------------------- a run as a whole

\* "for slug, (mname, specs) in all_specs.items()": the modules built from
\* specs[k..], appended to acc; raised when a build raises.
RECURSIVE BuildAll(_, _, _, _, _)
BuildAll(specs, k, FW, ser, acc) ==
    IF k > Len(specs) THEN acc
    ELSE LET r == build_module_obj(specs[k][1], specs[k][2], FW, ser)
         IN  IF r.kind = "raised" THEN [acc EXCEPT !.raised = TRUE]
             ELSE IF r.kind = "none" THEN BuildAll(specs, k + 1, FW, ser, acc)
             ELSE BuildAll(specs, k + 1, FW, ser,
                           [raised  |-> FALSE,
                            modules |-> Append(acc.modules, r.module),
                            afss    |-> r.fss @@ acc.afss,
                            ts      |-> (specs[k][1] :> r.ts) @@ acc.ts])

\* The outputs of one run of the script on the given specs, tables and series.
Run(specs, FW, MW, ser) ==
    LET b == BuildAll(specs, 1, FW, ser,
                      [raised |-> FALSE, modules |-> <<>>, afss |-> << >>, ts |-> << >>])
        sorted == SortByPtsDesc(LiftDragEntries(b.modules, MW, FW, b.afss))
    IN  IF b.raised THEN [outcome |-> "raised"]
        ELSE [outcome       |-> "done",
              scores        |-> {<<b.modules[i].slug, b.modules[i].score,
                                   b.modules[i].prevScore>> : i \in 1..Len(b.modules)},
              ts            |-> b.ts,
              overall_score |-> OverallScore(b.modules, MW),
              prev_overall  |-> PrevOverall(b.modules, MW),
              overall_ts    |-> OverallTs(b.modules, MW, FW, b.afss),
              score_lift    |-> SelectSeq(sorted, LAMBDA e : e.pts > 0),
              score_drag    |-> SelectSeq(sorted, LAMBDA e : e.pts < 0)]

\* The same outputs, read from the state at the end of a run.
Outputs ==
    IF pc = "raised" THEN [outcome |-> "raised"]
    ELSE [outcome       |-> "done",
          scores        |-> {<<modules[i].slug, modules[i].score,
                               modules[i].prevScore>> : i \in 1..Len(modules)},
          ts            |-> mod_score_ts,
          overall_score |-> overall_score,
          prev_overall  |-> prev_overall,
          overall_ts    |-> overall_ts,
          score_lift    |-> score_lift,
          score_drag    |-> score_drag]

Finished == pc \in {"done", "raised"}

\* ================================================================= claims

\* Counts over a window of values, as the claims state them.
CountLt(w, x) == Cardinality({i \in 1..Len(w) : w[i] < x})
CountLe(w, x) == Cardinality({i \in 1..Len(w) : w[i] <= x})

\* The two windows hold the same values with the same multiplicities.
SameValues(w, v) ==
    /\ Len(w) = Len(v)
    /\ \A i \in 1..Len(v) : CountLe(w, v[i]) = CountLe(v, v[i])
    /\ \A i \in 1..Len(w) : CountLe(w, w[i]) = CountLe(v, w[i])

\* pct_rank has been called on u_series and its result is in u_pct.
Ranked == u_pc \in {"ranked", "scored", "status", "done"} /\ ~u_given

\* C1 as stated: on a window of n >= 2 values the percentile rank of the
\* current value x is ((c_lt + c_le) / (2n)) * 100, in pct_rank and for every
\* day of make_score_series; on fewer than 2 values pct_rank returns 50.0.
C1_MeanRank ==
    /\ Ranked =>
          LET w == ValuesOf(u_series)
              n == Len(w)
          IN  IF n < 2 THEN u_pct = <<50, 1>>
              ELSE u_pct[1] * 2 * n
                     = (CountLt(w, w[n]) + CountLe(w, w[n])) * 100 * u_pct[2]
    /\ (u_pc = "done" /\ ~u_given) =>
          \A i \in 1..Len(u_ss) :
              LET w == ValuesOf(u_series)
              IN  u_ss[i][2] = score_from_pct(
                      <<(CountLt(w, w[i]) + CountLe(w, w[i])) * 100, 2 * Len(w)>>,
                      u_fid)

\* C1 as amended: on a window of n >= 2 values that holds x the percentile
\* rank of x is ((c_lt + c_le + 1) / (2n)) * 100, in pct_rank and for every day
\* of make_score_series; on fewer than 2 values pct_rank returns 50.0.
C1_TieAwareRank ==
    /\ Ranked =>
          LET w == ValuesOf(u_series)
              n == Len(w)
          IN  IF n < 2 THEN u_pct = <<50, 1>>
              ELSE u_pct[1] * 2 * n
                     = (CountLt(w, w[n]) + CountLe(w, w[n]) + 1) * 100 * u_pct[2]
    /\ (u_pc = "done" /\ ~u_given) =>
          /\ Len(u_ss) \in {0, Len(u_series)}
          /\ \A i \in 1..Len(u_ss) :
                LET w == ValuesOf(u_series)
                IN  u_ss[i][2] = score_from_pct(
                        <<(CountLt(w, w[i]) + CountLe(w, w[i]) + 1) * 100, 2 * Len(w)>>,
                        u_fid)

\* A window of five values with a tie at the current value has been ranked and
\* its score series built.
C1_Witness ==
    /\ u_pc = "done" /\ ~u_given
    /\ Len(u_series) = 5 /\ Len(u_ss) = 5
    /\ u_series[5][2] = u_series[1][2]
    /\ u_series[5][2] > u_series[2][2]

\* C2 as stated: 30 ranks 50.0 in [10,20,30,40,50], 20 ranks 62.5 in
\* [10,20,20,30], and equal values of a window get equal ranks.
C2_Examples ==
    /\ Ranked =>
          LET w == ValuesOf(u_series)
          IN  /\ (SameValues(w, <<10, 20, 30, 40, 50>>) /\ w[Len(w)] = 30)
                    => u_pct[1] * 10 = 500 * u_pct[2]
              /\ (SameValues(w, <<10, 20, 20, 30>>) /\ w[Len(w)] = 20)
                    => u_pct[1] * 10 = 625 * u_pct[2]
    /\ (u_pc = "done" /\ ~u_given) =>
          \A i, j \in 1..Len(u_ss) :
              u_series[i][2] = u_series[j][2] => u_ss[i][2] = u_ss[j][2]

\* C2 as amended: 30 ranks 60.0 in [10,20,30,40,50], 20 ranks 62.5 in
\* [10,20,20,30], and equal values of a window get equal ranks.
C2_RankExamples ==
    /\ Ranked =>
          LET w == ValuesOf(u_series)
          IN  /\ (SameValues(w, <<10, 20, 30, 40, 50>>) /\ w[Len(w)] = 30)
                    => u_pct[1] * 10 = 600 * u_pct[2]
              /\ (SameValues(w, <<10, 20, 20, 30>>) /\ w[Len(w)] = 20)
                    => u_pct[1] * 10 = 625 * u_pct[2]
    /\ (u_pc = "done" /\ ~u_given) =>
          /\ \A i, j \in 1..Len(u_ss) :
                u_series[i][2] = u_series[j][2] => u_ss[i][2] = u_ss[j][2]
          /\ (SameValues(ValuesOf(u_series), <<10, 20, 30, 40, 50>>)
                /\ u_fid \notin INVERT_FACTORS) =>
                \A i \in 1..Len(u_ss) : u_series[i][2] = 30 => u_ss[i][2] = 600

\* 30 has been ranked in a window holding 10, 20, 30, 40 and 50.
C2_Witness ==
    /\ Ranked
    /\ SameValues(ValuesOf(u_series), <<10, 20, 30, 40, 50>>)
    /\ u_series[Len(u_series)][2] = 30

\* C3: a score lies in [0, 100], and the status is decided by the score alone:
\* supportive iff score >= 66, neutral iff 33 <= score < 66, restrictive iff
\* score < 33.
C3_ScoreRangeAndStatus ==
    /\ u_pc \in {"scored", "status", "done"} => (0 <= u_score /\ u_score <= 1000)
    /\ u_pc \in {"status", "done"} =>
          /\ u_status = "supportive" <=> u_score >= 660
          /\ u_status = "neutral" <=> (330 <= u_score /\ u_score < 660)
          /\ u_status = "restrictive" <=> u_score < 330
          /\ u_score = 660 => u_status = "supportive"
          /\ u_score = 659 => u_status = "neutral"
          /\ u_score = 330 => u_status = "neutral"
          /\ u_score = 329 => u_status = "restrictive"

\* A raw percentile above 100 has been scored and the score classified.
C3_Witness ==
    /\ u_pc = "status" /\ u_given
    /\ u_pct[1] > 100 * u_pct[2]
    /\ u_score = 1000 /\ u_status = "supportive"

\* C4: for a raw percentile in [0, 100] the score of an inverted factor is
\* 100 - raw_percentile and the score of any other factor is raw_percentile
\* (each rounded to one decimal), and inverting the score of an inverted factor
\* again gives the raw percentile back (rounded to one decimal).
C4_InversionLaw ==
    (u_pc \in {"scored", "status", "done"}
        /\ 0 <= u_pct[1] /\ u_pct[1] <= 100 * u_pct[2]) =>
        IF u_fid \in INVERT_FACTORS
        THEN /\ u_score = RoundHalfEven(10 * (100 * u_pct[2] - u_pct[1]), u_pct[2])
             /\ score_from_pct(<<u_score, 10>>, u_fid)
                  = RoundHalfEven(10 * u_pct[1], u_pct[2])
        ELSE u_score = RoundHalfEven(10 * u_pct[1], u_pct[2])

\* An inverted factor has been scored on a percentile that rounding moves.
C4_Witness ==
    /\ u_pc = "scored" /\ u_given
    /\ u_fid \in INVERT_FACTORS
    /\ u_pct = <<245, 20>>
    /\ u_score = 878

\* ----------------------------------------------------- claims on a run

\* The factor specs of a module of all_specs.
SpecsOf(slug) == all_specs[CHOOSE k \in 1..Len(all_specs) : all_specs[k][1] = slug][2]

\* The factor has the 10 observations make_factor asks for.
Available(fid) == Len(dropna(series[fid])) >= 10

\* The scored (non-extra) factors of a built module, and what the module score
\* is made of: each one's score and its weight (configured, or 1/len(scored)).
NonExtra(m) == SelectSeq(m.factors, LAMBDA f : ~f.isExtra)
FactorScore(f) == score_from_pct(<<f.historicalPercentile5Y, 10>>, f.id)
FactorWeight(m, f) ==
    IF f.id \in DOMAIN FACTOR_WEIGHTS[m.slug] THEN FACTOR_WEIGHTS[m.slug][f.id]
    ELSE 420 \div Len(NonExtra(m))
WeightSum(m) ==
    SumSeq(List([j \in 1..Len(NonExtra(m)) |-> FactorWeight(m, NonExtra(m)[j])]))
WeightedScoreSum(m) ==
    SumSeq(List([j \in 1..Len(NonExtra(m)) |->
                    FactorWeight(m, NonExtra(m)[j]) * FactorScore(NonExtra(m)[j])]))

\* Every configured factor weight doubled.
Doubled(FW) == [slug \in DOMAIN FW |-> [fid \in DOMAIN FW[slug] |-> 2 * FW[slug][fid]]]

\* C5: the score of a built module is sum(w_i * s_i) / sum(w_i) over its
\* scored factors that are present (at least 10 observations), rounded to one
\* decimal; a missing factor's weight is not in the sum; and with every present
\* scored factor configured, doubling all weights leaves the score unchanged.
C5_WeightedAverage ==
    pc = "overall" => \A i \in 1..Len(modules) :
        LET m == modules[i]
        IN  /\ {m.factors[j].id : j \in 1..Len(m.factors)}
                 = {sp[1] : sp \in {SpecsOf(m.slug)[j] : j \in 1..Len(SpecsOf(m.slug))}
                                   \cap {sp \in FactorIds \X BOOLEAN : Available(sp[1])}}
            /\ WeightSum(m) > 0
            /\ 2 * Abs(m.score * WeightSum(m) - WeightedScoreSum(m)) <= WeightSum(m)
            /\ (\A j \in 1..Len(NonExtra(m)) :
                    NonExtra(m)[j].id \in DOMAIN FACTOR_WEIGHTS[m.slug])
                 => build_module_obj(m.slug, SpecsOf(m.slug), Doubled(FACTOR_WEIGHTS),
                                     series).module.score = m.score

\* Every module is built, one of them from two scored factors of different
\* scores whose configured weights sum to 0.45.
C5_Witness ==
    /\ pc = "overall"
    /\ Len(modules) = 2
    /\ Len(NonExtra(modules[1])) = 2
    /\ FactorScore(NonExtra(modules[1])[1]) # FactorScore(NonExtra(modules[1])[2])
    /\ WeightSum(modules[1]) = Frac(45, 100)
    /\ modules[1].score # FactorScore(NonExtra(modules[1])[1])

\* The modules whose weight the overall score sums.
PresentWeightSum ==
    SumSeq(List([i \in 1..Len(PresentItems(modules, MODULE_WEIGHTS)) |->
                    PresentItems(modules, MODULE_WEIGHTS)[i][2]]))
PresentWeightedScores ==
    SumSeq(List([i \in 1..Len(PresentItems(modules, MODULE_WEIGHTS)) |->
                    PresentItems(modules, MODULE_WEIGHTS)[i][2]
                      * ModuleOf(modules, PresentItems(modules, MODULE_WEIGHTS)[i][1]).score]))

\* C6: a module whose factor series all have fewer than 10 observations is
\* absent, and the overall score is sum(w_m * score_m) / sum(w_m) over the
\* present modules; with weights 0.6 / 0.4 and scores 80.0 and 20.0 it is 56.0.
C6_RenormalizedOverall ==
    pc \in {"trend", "attribution", "done"} =>
        /\ \A k \in 1..Len(all_specs) :
              (\A j \in 1..Len(all_specs[k][2]) : ~Available(all_specs[k][2][j][1]))
                  => ~HasModule(modules, all_specs[k][1])
        /\ PresentWeightSum > 0 =>
              overall_score = RoundHalfEven(PresentWeightedScores, PresentWeightSum)
        /\ (Len(modules) = 2 /\ modules[1].score = 800 /\ modules[2].score = 200
              /\ MODULE_WEIGHTS[1][2] = Frac(60, 100) /\ MODULE_WEIGHTS[2][2] = Frac(40, 100))
              => overall_score = 560

\* The sum of the point contributions of the lift and drag lists (hundredths).
AttributedPts ==
    SumSeq(List([i \in 1..Len(score_lift) |-> score_lift[i].pts]))
      + SumSeq(List([i \in 1..Len(score_drag) |-> score_drag[i].pts]))

\* C7: after a run, the lift and drag contributions sum to the overall 7-day
\* point change (overall score minus overall previous score) within 0.1.
C7_AttributionConserved ==
    pc = "done" => Abs(AttributedPts - 10 * (overall_score - prev_overall)) <= 10

Reverse(s) == List([i \in 1..Len(s) |-> s[Len(s) + 1 - i]])

\* all_specs with the factor specs of every module in reverse order.
FactorsReversed == List([k \in 1..Len(all_specs) |->
                           <<all_specs[k][1], Reverse(all_specs[k][2])>>])

\* C8: a run's scores, trend series and lift/drag lists are the same when the
\* factor specs of each module, the modules of all_specs or the modules of
\* MODULE_WEIGHTS are iterated in another order (and when the run is repeated).
C8_OrderIndependent ==
    Finished =>
        /\ Run(all_specs, FACTOR_WEIGHTS, MODULE_WEIGHTS, series) = Outputs
        /\ Run(FactorsReversed, FACTOR_WEIGHTS, MODULE_WEIGHTS, series) = Outputs
        /\ Run(Reverse(all_specs), FACTOR_WEIGHTS, MODULE_WEIGHTS, series) = Outputs
        /\ Run(all_specs, FACTOR_WEIGHTS, Reverse(MODULE_WEIGHTS), series) = Outputs

\* The present scored factors of the k-th module of all_specs, and the sum of
\* the weights build_module_obj gives them.
PresentScored(k) ==
    SelectSeq(all_specs[k][2], LAMBDA sp : ~sp[2] /\ Available(sp[1]))
ConfiguredSum(k) ==
    SumSeq(List([j \in 1..Len(PresentScored(k)) |->
                    WeightGet(TableGet(FACTOR_WEIGHTS, all_specs[k][1]),
                              PresentScored(k)[j][1],
                              420 \div Len(PresentScored(k)))]))

\* C9: build_module_obj does not raise when the weights of the present scored
\* factors sum to zero: the module is built, with the equal-weight average of
\* its scored factors as its score; and the percent change of a built module
\* is defined also for a previous score of zero.
C9_ZeroWeightFallback ==
    /\ pc # "raised"
    /\ \A k \in 1..Len(all_specs) :
          (k < todo /\ PresentScored(k) # <<>> /\ ConfiguredSum(k) = 0) =>
              /\ HasModule(modules, all_specs[k][1])
              /\ LET m == ModuleOf(modules, all_specs[k][1])
                 IN  m.score = RoundHalfEven(
                         SumSeq(List([j \in 1..Len(NonExtra(m)) |->
                                         FactorScore(NonExtra(m)[j])])),
                         Len(NonExtra(m)))
    /\ \A i \in 1..Len(modules) :
          modules[i].prevScore = 0 =>
              modules[i].sevenDayChangePct = 100000 * modules[i].score

\* The series tried in place of the informational factor's.
ExtraAlternatives ==
    {IF series["on-rrp"] = TooShort THEN StepSeries(FirstRawDay, {}, 1, 2) ELSE TooShort,
     StepSeries(FirstRawDay, {TODAY - 1}, 2, 1)}

\* all_specs without the informational factors.
WithoutExtras == List([k \in 1..Len(all_specs) |->
                         <<all_specs[k][1],
                           SelectSeq(all_specs[k][2], LAMBDA sp : ~sp[2])>>])

\* C10: the module scores, previous scores and historical series, the overall
\* score, previous score and series and the lift and drag lists of a run are
\* those of the run with the informational factor's series changed, and of the
\* run without the informational factors; a module none of whose scored factors
\* is available is not built.
C10_ExtrasIgnored ==
    Finished =>
        /\ \A alt \in ExtraAlternatives :
              Run(all_specs, FACTOR_WEIGHTS, MODULE_WEIGHTS,
                  [series EXCEPT !["on-rrp"] = alt]) = Outputs
        /\ Run(WithoutExtras, FACTOR_WEIGHTS, MODULE_WEIGHTS, series) = Outputs
        /\ \A k \in 1..Len(all_specs) :
              PresentScored(k) = <<>> => ~HasModule(modules, all_specs[k][1])

\* A run has ended whose informational factor is available while no scored
\* factor of its module is: the module is dropped and the other one scored.
C10_Witness ==
    /\ pc = "done"
    /\ Available("on-rrp")
    /\ ~Available("fed-net-liquidity") /\ ~Available("tga-deviation")
    /\ Len(modules) = 1
    /\ score_lift # <<>>

\* The scored factors of the present modules, in the order of lift_drag, as
\* <<factor id, contribution>>: the contribution (score_now - score_7d) *
\* factor weight * module weight is exact, in units of 1/(10 * 420 * 420) of a
\* point, and zero for a factor with fewer than 9 historical scores.
Contributions ==
    LET items == PresentItems(modules, MODULE_WEIGHTS)
        OfFactor(f, scored, it) ==
            LET ss == IF f.id \in DOMAIN all_factor_score_series
                      THEN all_factor_score_series[f.id] ELSE <<>>
                w  == WeightGet(TableGet(FACTOR_WEIGHTS, it[1]), f.id,
                                420 \div Len(scored)) * it[2]
            IN  <<f.id, IF Len(ss) < 9 THEN 0
                        ELSE (ILocBack(ss, 1)[2] - ILocBack(ss, 8)[2]) * w>>
        OfModule(it) ==
            LET scored == NonExtra(ModuleOf(modules, it[1]))
            IN  List([j \in 1..Len(scored) |-> OfFactor(scored[j], scored, it)])
    IN  Flatten(List([i \in 1..Len(items) |-> OfModule(items[i])]))

ContributionOf(fid) ==
    Contributions[CHOOSE i \in 1..Len(Contributions) : Contributions[i][1] = fid][2]

NamesOf(list) == {list[i].name : i \in 1..Len(list)}

\* C11: after a run the lift list holds exactly the scored factors whose
\* contribution is > 0 and the drag list exactly those whose contribution is
\* < 0 (so a factor of zero contribution, or of fewer than 9 historical scores,
\* is in neither, and none is in both), each factor once, and each list is in
\* descending order of contribution.
C11_LiftDragPartition ==
    pc = "done" =>
        /\ NamesOf(score_lift)
             = {Contributions[i][1] : i \in {j \in 1..Len(Contributions) :
                                                Contributions[j][2] > 0}}
        /\ NamesOf(score_drag)
             = {Contributions[i][1] : i \in {j \in 1..Len(Contributions) :
                                                Contributions[j][2] < 0}}
        /\ NamesOf(score_lift) \cap NamesOf(score_drag) = {}
        /\ Cardinality(NamesOf(score_lift)) = Len(score_lift)
        /\ Cardinality(NamesOf(score_drag)) = Len(score_drag)
        /\ \A i, j \in 1..Len(score_lift) :
              i < j => ContributionOf(score_lift[i].name)
                          >= ContributionOf(score_lift[j].name)
        /\ \A i, j \in 1..Len(score_drag) :
              i < j => ContributionOf(score_drag[i].name)
                          >= ContributionOf(score_drag[j].name)

\* The module's historical score series kept by the run.
ModuleTs(slug) == IF slug \in DOMAIN mod_score_ts THEN mod_score_ts[slug] ELSE <<>>

\* The latest value of a series minus the value k observations before it, as a
\* real in tenths of a point.
ChangeOver(ts, k) ==
    RAdd(ts[Len(ts)][2], <<0 - ts[Len(ts) - k][2][1], ts[Len(ts) - k][2][2]>>)

\* The direction of a change against a threshold (both in tenths of a point).
DirectionOf(change, threshold) ==
    IF RGt(change, <<threshold, 1>>) THEN "improving"
    ELSE IF RLt(change, <<0 - threshold, 1>>) THEN "declining"
    ELSE "stable"

\* The trend of a series as C12 states it: the value 3 observations before the
\* most recent against the most recent, threshold 1 point.
TrendAsStated(ts) ==
    IF Len(ts) < 4 THEN "stable" ELSE DirectionOf(ChangeOver(ts, 3), 10)

\* The trend of a series over its last three observations (its last two when
\* it has only two): the first of them against the last.
TrendOfLastThree(ts, threshold) ==
    IF Len(ts) < 2 THEN "stable"
    ELSE DirectionOf(ChangeOver(ts, IF Len(ts) >= 3 THEN 2 ELSE 1), threshold)

\* C12 as stated: the trend direction of every module and of the overall index
\* compares the value 3 observations before the most recent with the most
\* recent: above +1 improving, below -1 declining, otherwise stable.
C12_SameTrendRule ==
    /\ \A i \in 1..Len(modules) :
          modules[i].trendDirection = TrendAsStated(ModuleTs(modules[i].slug))
    /\ pc \in {"attribution", "done"} => overall_trend_dir = TrendAsStated(overall_ts)

\* C12 as amended: the trend direction compares the first of the last three
\* observations (2 observations before the most recent) with the most recent;
\* for a module a change above +1 is improving and below -1 declining, for the
\* overall index above +0.5 and below -0.5; otherwise stable.
C12_TrendOfLastThree ==
    /\ \A i \in 1..Len(modules) :
          modules[i].trendDirection = TrendOfLastThree(ModuleTs(modules[i].slug), 10)
    /\ pc \in {"attribution", "done"} => overall_trend_dir = TrendOfLastThree(overall_ts, 5)

\* The overall index has moved by more than 0.5 and no more than 1 point over
\* its last three observations, and a module by more than 1 point.
C12_Witness ==
    /\ pc = "done"
    /\ Len(overall_ts) >= 3
    /\ RGt(ChangeOver(overall_ts, 2), <<5, 1>>)
    /\ ~RGt(ChangeOver(overall_ts, 2), <<10, 1>>)
    /\ overall_trend_dir = "improving"
    /\ \E i \in 1..Len(modules) : modules[i].trendDirection = "improving"

\* The value of a series 7 observations back from the latest, rounded to one
\* decimal, or the given score when the series has no such observation.
SevenBack(ts, score) ==
    IF Len(ts) > 7 THEN RoundTenths(ts[Len(ts) - 7][2]) ELSE score

\* C13: the previous score of a module is the value of its historical score
\* series 7 observations back from the latest (the module score when the series
\* is too short), and the overall previous score is the value of the overall
\* historical score series 7 observations back from the latest (the overall
\* score when that series is too short).
C13_PrevScores ==
    /\ \A i \in 1..Len(modules) :
          modules[i].prevScore = SevenBack(ModuleTs(modules[i].slug), modules[i].score)
    /\ pc \in {"attribution", "done"} =>
          prev_overall = SevenBack(overall_ts, overall_score)

\* The scored factors of a built module that have a historical score on day d.
AvailableOn(m, d) ==
    SelectSeq(ValidIds(m, all_factor_score_series),
              LAMBDA fid : HasDate(all_factor_score_series[fid], d))

\* The weight of a factor in its module's historical series, before any
\* renormalization: configured, or the equal share of the contributing factors.
SeriesWeight(m, fid) ==
    WeightGet(TableGet(FACTOR_WEIGHTS, m.slug), fid,
              420 \div Len(ValidIds(m, all_factor_score_series)))

\* C14: on every date of a module's historical score series the module value
\* is the weighted average of the factor scores available on that date, the
\* weights renormalized over the factors available on that date.
C14_RenormalizedPerDate ==
    \A i \in 1..Len(modules) :
        LET m  == modules[i]
            ts == ModuleTs(m.slug)
        IN  \A k \in 1..Len(ts) :
                LET on  == AvailableOn(m, ts[k][1])
                    num == SumSeq(List([j \in 1..Len(on) |->
                               SeriesWeight(m, on[j])
                                 * ValAt(all_factor_score_series[on[j]], ts[k][1])]))
                    den == SumSeq(List([j \in 1..Len(on) |-> SeriesWeight(m, on[j])]))
                IN  /\ den > 0
                    /\ ts[k][2][1] * den = num * ts[k][2][2]

\* The series with the values of its i-th and j-th day exchanged.
SwapDays(s, i, j) ==
    List([k \in 1..Len(s) |->
            <<s[k][1], s[IF k = i THEN j ELSE IF k = j THEN i ELSE k][2]>>])

\* C15: in the historical score series of a window every day is ranked against
\* all values of the window, later days included: days of equal value have
\* equal scores, exchanging the values of any two days exchanges their scores
\* and changes no other day's, and a day's score is the score its value has as
\* the window's current value.
C15_FixedWindow ==
    (u_pc = "done" /\ ~u_given) =>
        /\ \A i, j \in 1..Len(u_ss) :
              u_series[i][2] = u_series[j][2] => u_ss[i][2] = u_ss[j][2]
        /\ \A i, j \in 1..Len(u_series) :
              i < j =>
                LET t == make_score_series(SwapDays(u_series, i, j), u_fid)
                IN  /\ Len(t) = Len(u_ss)
                    /\ \A k \in 1..Len(u_ss) :
                          t[k][2] = u_ss[IF k = i THEN j ELSE IF k = j THEN i ELSE k][2]
        /\ \A i \in 1..Len(u_ss) :
              u_ss[i][2] = score_from_pct(pct_rank(SwapDays(u_series, i, Len(u_series))),
                                          u_fid)

\* The score series of a five-day window is built whose first day's value
\* comes again on the fourth day, with a larger value and a smaller one after
\* the first day.
C15_Witness ==
    /\ u_pc = "done" /\ ~u_given
    /\ Len(u_ss) = 5
    /\ u_series[1][2] = u_series[4][2]
    /\ u_series[2][2] > u_series[1][2]
    /\ u_series[5][2] < u_series[1][2]
    /\ u_ss[1][2] = u_ss[4][2]
    /\ u_ss[1][2] # u_ss[5][2]

\* The latest value of a factor's historical score series.
LatestScore(fid) ==
    all_factor_score_series[fid][Len(all_factor_score_series[fid])][2]

\* C16: for every scored factor of a built module the latest value of its
\* historical score series is its current score (the score that feeds the
\* module score), and the latest value of the module's historical score series
\* is the module score, to the rounding of one decimal.
C16_LatestIsCurrent ==
    \A i \in 1..Len(modules) :
        LET m  == modules[i]
            ts == ModuleTs(m.slug)
        IN  /\ \A j \in 1..Len(NonExtra(m)) :
                  LET f == NonExtra(m)[j]
                  IN  (f.id \in DOMAIN all_factor_score_series
                         /\ all_factor_score_series[f.id] # <<>>)
                        => LatestScore(f.id) = FactorScore(f)
            /\ ts # <<>> => Abs(RoundTenths(ts[Len(ts)][2]) - m.score) <= 1

=============================================================================
